---- MODULE Spec2Model ----
(***************************************************************************)
(* Membership activation workflow of the CSI NMAMIT web application:       *)
(* the payment server (create-order, verify-payment, webhook), the         *)
(* payment gateway as the server and the browser see it, and the browser   *)
(* code paths that write the same user documents (sign-in, auth-state      *)
(* listener, profile saves, admin role edits).                             *)
(*                                                                         *)
(* The repository holds two versions of the payment server:                *)
(*   "backend"  src/backend/index.js   (no duplicate guard, writes         *)
(*              membership.planId / membership.expiryDate)                 *)
(*   "guarded"  src/unnamed/part_005   (duplicate guard, writes            *)
(*              membership.type / membership.expiresAt)                    *)
(* The variable server says which one is deployed.                         *)
(*                                                                         *)
(* Time is counted in whole days since 1970-01-01.                         *)
(***************************************************************************)
EXTENDS Integers, Sequences, FiniteSets, TLC

(***************************************************************************)
(* Bounds of the model.                                                    *)
(***************************************************************************)
\* the day the model starts on: 2024-02-29, so that the clock passes a leap day
Day0 == 19782
\* how many times the clock advances
MaxTicks == 1
\* how many rows the payments ledger holds
MaxRows == 2
\* how many minutes the clock of the recruit page runs
MaxClock == 6
\* the longest record of order requests kept
MaxSent == 4
\* the most script tags and the most calls waiting for one
MaxScripts == 2
\* how often the recruit page is loaded again
MaxReloads == 1
\* identifiers of /verify-payment are strings of at most MaxIdLen characters
MaxIdLen == 2

(***************************************************************************)
(* Values.                                                                 *)
(***************************************************************************)
\* a field that is missing from a document or request (undefined), and one
\* that is stored as null
Unset == "unset"
Null == "null"
\* the same for date fields
NoDate == 0 - 1
NullDate == 0 - 2

\* field?.toDate(), field || default: null and undefined read alike
isSet(v) == v \notin {Unset, Null}
isSetDate(d) == d \notin {NoDate, NullDate}

Uids == {"u1"}

\* the two server versions
Servers == {"backend", "guarded"}

\* MEMBERSHIP_PLANS: plan id -> price in whole rupees
PlanIds == {"one-year", "two-year", "three-year"}

MEMBERSHIP_PLANS ==
    [p \in PlanIds |->
        CASE p = "one-year"   -> [price |-> 358, name |-> "1-Year Executive Membership"]
          [] p = "two-year"   -> [price |-> 664, name |-> "2-Year Executive Membership"]
          [] p = "three-year" -> [price |-> 919, name |-> "3-Year Executive Membership"]]

\* plan ids a request may carry: the catalog, an unknown id, a missing id, and
\* "constructor", a key every JavaScript object inherits
RequestPlanIds == PlanIds \cup {"lifetime", "constructor", Unset}

\* (a lookup that finds every key)
planLookupTruthy_any(planId) == TRUE
\* MEMBERSHIP_PLANS[planId] is truthy: own keys and inherited ones
planLookupTruthy(planId) == planId \in PlanIds \/ planId = "constructor"

(***************************************************************************)
(* Calendar arithmetic on day numbers (proleptic Gregorian), as the        *)
(* JavaScript Date object does it in setDate and setFullYear.              *)
(***************************************************************************)
isLeap(y) == (y % 4 = 0 /\ y % 100 # 0) \/ y % 400 = 0

daysInMonth(y, m) ==
    CASE m = 2 -> IF isLeap(y) THEN 29 ELSE 28
      [] m \in {4, 6, 9, 11} -> 30
      [] OTHER -> 31

\* day number of the civil date y-m-d
daysFromCivil(y, m, d) ==
    LET yy  == IF m <= 2 THEN y - 1 ELSE y
        era == yy \div 400
        yoe == yy - era * 400
        mp  == (m + 9) % 12
        doy == (153 * mp + 2) \div 5 + d - 1
        doe == yoe * 365 + yoe \div 4 - yoe \div 100 + doy
    IN  era * 146097 + doe - 719468

\* civil date <<y, m, d>> of a day number
civilFromDays(z) ==
    LET zz  == z + 719468
        era == zz \div 146097
        doe == zz - era * 146097
        yoe == (doe - doe \div 1460 + doe \div 36524 - doe \div 146096) \div 365
        doy == doe - (365 * yoe + yoe \div 4 - yoe \div 100)
        mp  == (5 * doy + 2) \div 153
        d   == doy - (153 * mp + 2) \div 5 + 1
        m   == IF mp < 10 THEN mp + 3 ELSE mp - 9
        y   == yoe + era * 400
    IN  <<IF m <= 2 THEN y + 1 ELSE y, m, d>>

\* date.setFullYear(date.getFullYear() + n): month and day are kept, and a day the
\* target month does not have rolls over into the next month
addYears(day, n) ==
    LET c == civilFromDays(day)
        y == c[1] + n
        m == c[2]
        d == c[3]
    IN  IF d <= daysInMonth(y, m)
        THEN daysFromCivil(y, m, d)
        ELSE daysFromCivil(y, m, daysInMonth(y, m)) + (d - daysInMonth(y, m))

(***************************************************************************)
(* Strings, JSON and HMAC.                                                 *)
(* A string is a sequence of characters.  HMAC-SHA256 is modelled as an    *)
(* ideal keyed digest: the digest of a message under a key is the pair     *)
(* itself, so two digests are equal exactly when key and message are.      *)
(***************************************************************************)
RAZORPAY_KEY_ID == "RAZORPAY_KEY_ID"
RAZORPAY_KEY_SECRET == "key_secret"
WEBHOOK_SECRET == "webhook_secret"

\* crypto.createHmac("sha256", key).update(msg).digest("hex")
createHmac(key, msg) == [key |-> key, msg |-> msg]

\* a signature no key produces, and the missing header
GarbageSignature == [key |-> "none", msg |-> "garbage"]
NoSignature == [key |-> "none", msg |-> "missing"]

\* the characters of identifiers in verify-payment requests
Alphabet == {"a", "|"}

\* all strings over Alphabet of length at most n
RECURSIVE stringsUpTo(_)
stringsUpTo(n) ==
    IF n = 0 THEN {<<>>}
    ELSE LET shorter == stringsUpTo(n - 1)
         IN  shorter \cup {Append(s, c) : s \in shorter, c \in Alphabet}

IdStrings == stringsUpTo(MaxIdLen)

\* razorpay_order_id + "|" + razorpay_payment_id
signString(order_id, payment_id) == order_id \o <<"|">> \o payment_id

\* the digest /verify-payment compares the supplied signature with
expectedSign(order_id, payment_id) ==
    createHmac(RAZORPAY_KEY_SECRET, signString(order_id, payment_id))

\* A raw request body is the JSON text on the wire: what it says and how it is
\* written ("compact" is the text JSON.stringify produces; "spaced" is any other
\* text of the same value: added whitespace, escaped slashes, reordered keys).
BodyForms == {"compact", "spaced"}

\* express.json(): the parsed value keeps what the text says, not how
jsonParse(raw) == [event |-> raw.event, entity |-> raw.entity]

\* JSON.stringify(req.body): always the compact text
jsonStringify(body) == [event |-> body.event, entity |-> body.entity, form |-> "compact"]

\* the digest /webhook compares the x-razorpay-signature header with
webhookDigest(raw) == createHmac(WEBHOOK_SECRET, jsonStringify(jsonParse(raw)))

(***************************************************************************)
(* State.                                                                  *)
(***************************************************************************)
VARIABLES
    server,       \* which server version is deployed
    now,          \* today's day number
    ticks,        \* how often the clock advanced
    coreMembers,  \* uids whose e-mail the core-member roster lists
    users,        \* the users collection: uid -> document
    payments,     \* the payments collection, in order of creation
    orders,       \* the orders the gateway holds
    captured,     \* the payments the gateway captured
    signIn,       \* per uid: the document signInWithGoogle read, while it runs
    last,         \* the last request handled and its response
    page          \* the recruit page in the browser: limiters, script tags, clock

vars == <<server, now, ticks, coreMembers, users, payments, orders, captured, signIn, last,
          page>>

\* a membership subfield none of whose fields is set
NoMembership ==
    [status |-> Unset, type |-> Unset, startDate |-> NoDate, expiresAt |-> NoDate,
     planId |-> Unset, expiryDate |-> NoDate]

\* a user document that does not exist
NoDoc ==
    [exists |-> FALSE, role |-> Unset, name |-> Unset, membership |-> NoMembership]

\* nobody is signing in
Idle == [pc |-> "idle", snap |-> NoDoc]

\* the identifiers the gateway issues to orders and to payments (an identifier is
\* a string: here of one symbol)
OrderIds == {<<"order_1">>}
LaterOrderIds == {<<"order_2">>}
PaymentIds == {<<"pay_1">>}
LaterPaymentIds == {<<"pay_2">>}

\* identifiers already issued
issuedOrderIds == {orders[k].id : k \in 1..Len(orders)}
issuedPaymentIds == {captured[k].id : k \in 1..Len(captured)}

\* the window of both payment limiters, in minutes (300000 ms), and the attempts
\* they allow in it
RateWindow == 5
RateLimit == 3

\* the build-time settings of the browser code (VITE_API_BASE_URL,
\* VITE_RAZORPAY_KEY_ID: set or not), the user of the AuthContext (NoDoc: null),
\* and one run of handlePayment: loading, where the run waits (pc), whether the
\* profile check on userData passed (complete), the order
\* createOrder returned, the response it waits to read, the triple the checkout
\* handler received, and where the page navigated
NoOrder == [orderId |-> <<>>, amount |-> 0]
NoResponse == [status |-> 0, body |-> [error |-> "none"]]
NoTriple ==
    [razorpay_order_id |-> <<>>, razorpay_payment_id |-> <<>>,
     razorpay_signature |-> NoSignature]

\* useProfileFirestore when the profile page mounts: the form is empty, nothing
\* was loaded (originalData null), and a fetch of the profile is under way
\* (loading true).  saving is the form data a handleSave in flight was called
\* with, read the stored role it read, loaded whether a load or save succeeded
NoData == "no data"
ProfileMount ==
    [profileData |-> "", originalData |-> NoData, isEditing |-> FALSE,
     loading |-> TRUE, fetching |-> TRUE, saving |-> NoData, read |-> Unset,
     saved |-> NoData]

\* the recruit page after a load: PaymentService with an empty rateLimitMap (of the
\* signed-in user), the refs of useSecureRecruit, no script tag, no
\* window.Razorpay.  clock is the time in minutes; sent is the times at which a
\* /create-order request left the browser, sentSinceLoad those since the load;
\* listener is where the auth-state listener of the context stands.
PageLoad ==
    [rateLimitMap |-> <<>>, paymentAttempts |-> 0, lastPaymentTime |-> NoDate,
     scripts |-> 0, waiting |-> 0, Razorpay |-> FALSE,
     sentSinceLoad |-> <<>>, sent |-> <<>>, clock |-> 0, reloads |-> 0,
     apiBaseUrl |-> TRUE, razorpayKeyId |-> TRUE, user |-> NoDoc,
     loading |-> FALSE, pc |-> "idle", complete |-> FALSE, order |-> NoOrder, response |-> NoResponse,
     triple |-> NoTriple, navigated |-> Unset,
     profile |-> ProfileMount, listener |-> Idle]

\* nothing handled yet
NoRequest == [op |-> "none", status |-> 0]

Init ==
    /\ server \in Servers
    /\ now = Day0
    /\ ticks = 0
    /\ coreMembers = {}
    /\ users = [u \in Uids |-> NoDoc]
    /\ payments = <<>>
    /\ orders = <<>>
    /\ captured = <<>>
    /\ signIn = [u \in Uids |-> Idle]
    /\ last = NoRequest
    /\ page = PageLoad

(***************************************************************************)
(* POST /create-order                                                      *)
(***************************************************************************)
\* (a guard that lets everybody through)
alreadySubscribed_never(doc, today) == FALSE
\* the duplicate guard of the guarded server: the user holds an active membership
\* whose expiresAt is later than now
alreadySubscribed(doc, today) ==
    /\ doc.exists
    /\ doc.membership.status = "active"
    /\ isSetDate(doc.membership.expiresAt)
    /\ doc.membership.expiresAt > today

\* (a server that trusted the amount of the request body)
orderAmount_clientAmount(planId, clientAmount) == clientAmount * 100
\* const amount = plan.price * 100, from the server catalog
orderAmount(planId, clientAmount) == MEMBERSHIP_PLANS[planId].price * 100

\* amounts a client may put into the request body (whole rupees)
ClientAmounts == {1, 358}

\* fault: which outside call throws ("none", "db" for the user lookup, "gateway"
\* for razorpay.orders.create)
\* freshIds: the identifiers the gateway may give the order
createOrder(userId, planId, clientAmount, fault, freshIds) ==
    LET req == [userId |-> userId, planId |-> planId, amount |-> clientAmount]
        respond(status, body) ==
            last' = [op |-> "create-order", req |-> req, fault |-> fault,
                     status |-> status, body |-> body]
    IN
    IF planId = Unset \/ ~planLookupTruthy(planId)
    THEN /\ respond(400, [error |-> "Invalid plan selected"])
         /\ UNCHANGED orders
    ELSE IF server = "guarded" /\ (userId = Unset \/ fault = "db")
    THEN \* doc(undefined) throws, or the lookup fails: caught, 500
         /\ respond(500, [error |-> "Failed to create order"])
         /\ UNCHANGED orders
    ELSE IF server = "guarded" /\ alreadySubscribed(users[userId], now)
    THEN /\ respond(400, [error |-> "User already has an active subscription"])
         /\ UNCHANGED orders
    ELSE IF planId \notin PlanIds \/ fault = "gateway"
    THEN \* an inherited key gives plan.price = undefined and amount NaN, which the
         \* gateway refuses; or the gateway cannot be reached: caught, 500
         /\ respond(500, [error |-> "Failed to create order"])
         /\ UNCHANGED orders
    ELSE \E id \in freshIds \ issuedOrderIds :
            LET order == [id |-> id,
                          amount |-> orderAmount(planId, clientAmount),
                          currency |-> "INR",
                          notes |-> [userId |-> userId, planId |-> planId,
                                     planName |-> MEMBERSHIP_PLANS[planId].name]]
            IN  /\ orders' = Append(orders, order)
                /\ respond(200, [orderId |-> order.id, amount |-> order.amount,
                                 currency |-> order.currency,
                                 keyId |-> RAZORPAY_KEY_ID])

\* the outside calls a request gets as far as, and so the faults that can hit it
faultsFor(userId, planId) ==
    {"none"}
    \cup (IF planId # Unset /\ planLookupTruthy(planId) /\ server = "guarded"
             /\ userId # Unset
          THEN {"db"} ELSE {})
    \cup (IF /\ planId \in PlanIds
             /\ server = "guarded" => (userId # Unset /\ ~alreadySubscribed(users[userId], now))
          THEN {"gateway"} ELSE {})

CreateOrder ==
    /\ \E userId \in Uids \cup {Unset}, planId \in RequestPlanIds,
          clientAmount \in ClientAmounts :
            \E fault \in faultsFor(userId, planId) :
                createOrder(userId, planId, clientAmount, fault, OrderIds)
    /\ UNCHANGED <<page, server, now, ticks, coreMembers, users, payments, captured, signIn>>

\* a request that arrives when an order was created and paid before
CreateOrderAgain ==
    /\ \E userId \in Uids \cup {Unset}, planId \in RequestPlanIds,
          clientAmount \in ClientAmounts :
            \E fault \in faultsFor(userId, planId) :
                createOrder(userId, planId, clientAmount, fault, LaterOrderIds)
    /\ UNCHANGED <<page, server, now, ticks, coreMembers, users, payments, captured, signIn>>

\* requests of signed-in users for plans of the catalog, sent by the page (the
\* amount field is the price), while earlier orders may still be unpaid
CreateOrderUnpaid ==
    /\ \E userId \in Uids, planId \in PlanIds :
        createOrder(userId, planId, MEMBERSHIP_PLANS[planId].price, "none",
                    OrderIds \cup LaterOrderIds)
    /\ UNCHANGED <<page, server, now, ticks, coreMembers, users, payments, captured, signIn>>

(***************************************************************************)
(* POST /verify-payment                                                    *)
(***************************************************************************)
\* (a server that signed the two identifiers without the separator)
verifySignature_noSeparator(order_id, payment_id, signature) ==
    signature = createHmac(RAZORPAY_KEY_SECRET, order_id \o payment_id)
\* razorpay_signature === expectedSign
verifySignature(order_id, payment_id, signature) ==
    signature = expectedSign(order_id, payment_id)

\* the handler: a verdict and nothing else
verifyPayment(order_id, payment_id, signature) ==
    LET req == [razorpay_order_id |-> order_id, razorpay_payment_id |-> payment_id,
                razorpay_signature |-> signature]
    IN  /\ last' = IF verifySignature(order_id, payment_id, signature)
                   THEN [op |-> "verify-payment", req |-> req, status |-> 200,
                         body |-> [verified |-> TRUE]]
                   ELSE [op |-> "verify-payment", req |-> req, status |-> 400,
                         body |-> [verified |-> FALSE, error |-> "Invalid signature"]]
        /\ UNCHANGED <<page, server, now, ticks, coreMembers, users, payments, orders,
                       captured, signIn>>

\* strings that differ from s in exactly one character
singleCharMutations(s) ==
    {[s EXCEPT ![i] = c] : i \in 1..Len(s), c \in Alphabet} \ {s}

\* signatures a request for (order_id, payment_id) is tried with: the right one,
\* the ones of nearby requests and of other schemes, and garbage
TriedSignatures(order_id, payment_id) ==
    {expectedSign(order_id, payment_id),
     expectedSign(payment_id, order_id),
     createHmac(RAZORPAY_KEY_SECRET, order_id \o payment_id),
     createHmac(WEBHOOK_SECRET, signString(order_id, payment_id)),
     GarbageSignature}
    \cup {expectedSign(o, payment_id) : o \in singleCharMutations(order_id)}
    \cup {expectedSign(order_id, q) : q \in singleCharMutations(payment_id)}

\* the signature the gateway hands the checkout handler with a payment, which
\* the browser forwards
checkoutSignature(order_id, payment_id) ==
    createHmac(RAZORPAY_KEY_SECRET, signString(order_id, payment_id))

\* (a server that recorded the membership on a verified triple)
VerifyPayment_persists ==
    /\ \E u \in Uids, order_id \in OrderIds, payment_id \in PaymentIds :
        /\ last' = [op |-> "verify-payment",
                    req |-> [razorpay_order_id |-> order_id,
                             razorpay_payment_id |-> payment_id,
                             razorpay_signature |-> checkoutSignature(order_id, payment_id)],
                    status |-> 200, body |-> [verified |-> TRUE]]
        /\ users' = [users EXCEPT ![u].exists = TRUE, ![u].membership.status = "active"]
        /\ UNCHANGED payments
    /\ UNCHANGED <<page, server, now, ticks, coreMembers, orders, captured, signIn>>

\* the browser forwards the triple its checkout handler received, or a forged one
VerifyPayment ==
    \E order_id \in OrderIds, payment_id \in PaymentIds :
        \E signature \in {checkoutSignature(order_id, payment_id), GarbageSignature} :
            verifyPayment(order_id, payment_id, signature)

\* any request over the identifier strings
VerifyPaymentAny ==
    \E order_id \in IdStrings, payment_id \in IdStrings :
        \E signature \in TriedSignatures(order_id, payment_id) :
            verifyPayment(order_id, payment_id, signature)

(***************************************************************************)
(* The gateway: checkout and capture.                                      *)
(***************************************************************************)
\* what the notes of a payment may say: the checkout options, notes included, are
\* built in the browser
NoteUserIds == Uids \cup {Unset}
NotePlanIds == {"one-year", "three-year", "lifetime", Unset}

\* an order is paid at most once
orderPaid(k) == \E i \in 1..Len(captured) : captured[i].order_id = orders[k].id

\* the payment entity the gateway records for order k
paymentEntity(id, k, userId, planId) ==
    [id |-> id,
     order_id |-> orders[k].id,
     amount |-> orders[k].amount,
     currency |-> orders[k].currency,
     notes |-> [userId |-> userId, planId |-> planId]]

GatewayCapture ==
    /\ \E id \in PaymentIds \ issuedPaymentIds, k \in 1..Len(orders),
          userId \in NoteUserIds, planId \in NotePlanIds :
        /\ ~orderPaid(k)
        /\ captured' = Append(captured, paymentEntity(id, k, userId, planId))
    /\ last' = [op |-> "checkout", status |-> 0]
    /\ UNCHANGED <<page, server, now, ticks, coreMembers, users, payments, orders, signIn>>

\* the payment of an order whose checkout carries the notes of the order, as the
\* page builds them
GatewayCaptureOrder ==
    /\ \E id \in (PaymentIds \cup LaterPaymentIds) \ issuedPaymentIds, k \in 1..Len(orders) :
        /\ ~orderPaid(k)
        /\ captured' = Append(captured, paymentEntity(id, k, orders[k].notes.userId,
                                                      orders[k].notes.planId))
    /\ last' = [op |-> "checkout", status |-> 0]
    /\ UNCHANGED <<page, server, now, ticks, coreMembers, users, payments, orders, signIn>>

(***************************************************************************)
(* POST /webhook                                                           *)
(***************************************************************************)
WebhookEvents == {"payment.captured", "payment.failed"}

\* the events the gateway signs: about a captured payment, in either text form
gatewayBodies ==
    {[event |-> e, entity |-> captured[i], form |-> f] :
        e \in WebhookEvents, i \in 1..Len(captured), f \in BodyForms}

\* the gateway signs the text it sends
gatewaySignature(raw) == createHmac(WEBHOOK_SECRET, raw)

\* an entity the gateway never recorded, written by whoever calls the endpoint
forgedEntity(userId) ==
    [id |-> <<"pay_forged">>, order_id |-> <<"order_forged">>, amount |-> 100,
     currency |-> "INR", notes |-> [userId |-> userId, planId |-> "three-year"]]

forgedBodies ==
    {[event |-> "payment.captured", entity |-> forgedEntity(u), form |-> "compact"] :
        u \in Uids}

\* a payload without payload.payment
NoEntity == [missing |-> TRUE]

\* events of another shape, sent by a holder of the webhook secret
shapelessBodies ==
    {[event |-> e, entity |-> NoEntity, form |-> "compact"] : e \in WebhookEvents}

\* the headers a body is sent with: none, garbage, or a signature the gateway
\* issued (for this text, for its compact text, or for another event)
headersFor(raw) ==
    {NoSignature, GarbageSignature}
    \cup (IF raw \in shapelessBodies THEN {gatewaySignature(raw)} ELSE {})
    \cup (IF raw \in gatewayBodies
          THEN {gatewaySignature(raw),
                gatewaySignature([raw EXCEPT !.form = "compact"])}
          ELSE {gatewaySignature(b) : b \in gatewayBodies})

\* const durationYears = planId === 'one-year' ? 1 : planId === 'two-year' ? 2 : 3
durationYears(planId) ==
    IF planId = "one-year" THEN 1 ELSE IF planId = "two-year" THEN 2 ELSE 3

\* (a server that forgot to add the years)
expiresAtOf_noYears(today, planId) == today - 1
\* guarded server: yesterday plus the plan's years
expiresAtOf(today, planId) == addYears(today - 1, durationYears(planId))

\* backend server: Date.now() + (365 | 730 | 1095) days
expiryDateOf(today, planId) ==
    today + (IF planId = "one-year" THEN 365 ELSE IF planId = "two-year" THEN 730 ELSE 1095)

\* (a merge that writes nothing)
webhookMerge_nothing(doc, planId, today) == doc
\* userRef.set({membership: {...}, role, updatedAt}, {merge: true}): the fields
\* written replace the stored ones, every other field of the document is kept
\* (the updatedAt and createdAt stamps of user documents are not modelled)
webhookMerge(doc, planId, today) ==
    IF server = "guarded"
    THEN [doc EXCEPT !.exists = TRUE,
                     !.membership.status = "active",
                     !.membership.type = planId,
                     !.membership.startDate = today,
                     !.membership.expiresAt = expiresAtOf(today, planId),
                     !.role = "EXECUTIVE MEMBER"]
    ELSE [doc EXCEPT !.exists = TRUE,
                     !.membership.status = "active",
                     !.membership.planId = planId,
                     !.membership.startDate = today,
                     !.membership.expiryDate = expiryDateOf(today, planId),
                     !.role = "EXECUTIVE MEMBER"]

\* db.collection('payments').add({...}) (the createdAt stamp is not modelled)
paymentRow(payment, today) ==
    [userId |-> payment.notes.userId,
     paymentId |-> payment.id,
     orderId |-> payment.order_id,
     amount |-> payment.amount \div 100,
     currency |-> payment.currency,
     status |-> "success",
     planId |-> payment.notes.planId]

\* digest === signature
webhookVerified(signature, raw) == webhookDigest(raw) = signature

\* (a handler that does not look at the event type)
applicable_anyEvent(body) ==
    /\ body.entity # NoEntity
    /\ body.entity.notes.userId # Unset
    /\ body.entity.notes.planId # Unset
\* the event is applied: payment.captured with both notes
applicable(body) ==
    /\ body.event = "payment.captured"
    /\ body.entity # NoEntity
    /\ body.entity.notes.userId # Unset
    /\ body.entity.notes.planId # Unset

\* dbFail: which database write throws ("none", "set" or "add")
webhook(signature, raw, dbFail) ==
    LET req == [signature |-> signature, raw |-> raw]
        body == jsonParse(raw)
        payment == body.entity
        userId == payment.notes.userId
        respond(status, text) ==
            last' = [op |-> "webhook", req |-> req, fault |-> dbFail,
                     status |-> status, body |-> text]
    IN
    IF signature = NoSignature
    THEN /\ respond(400, [error |-> "Missing signature"])
         /\ UNCHANGED <<users, payments>>
    ELSE IF ~webhookVerified(signature, raw)
    THEN /\ respond(400, [error |-> "Invalid signature"])
         /\ UNCHANGED <<users, payments>>
    ELSE IF body.event = "payment.captured" /\ body.entity = NoEntity
    THEN \* payload.payment.entity throws outside the try block, in an async
         \* handler: no response at all, or the 500 of the framework's error
         \* handler, by the version of the framework
         /\ \/ respond(0, [error |-> "no response"])
            \/ respond(500, [error |-> "Internal Server Error"])
         /\ UNCHANGED <<users, payments>>
    ELSE IF ~applicable(body)
    THEN /\ respond(200, [status |-> "ok"])
         /\ UNCHANGED <<users, payments>>
    ELSE IF dbFail = "set"
    THEN /\ respond(500, [error |-> "Database update failed"])
         /\ UNCHANGED <<users, payments>>
    ELSE IF dbFail = "add"
    THEN /\ users' = [users EXCEPT ![userId] = webhookMerge(@, payment.notes.planId, now)]
         /\ respond(500, [error |-> "Database update failed"])
         /\ UNCHANGED payments
    ELSE /\ Len(payments) < MaxRows
         /\ users' = [users EXCEPT ![userId] = webhookMerge(@, payment.notes.planId, now)]
         /\ payments' = Append(payments, paymentRow(payment, now))
         /\ respond(200, [status |-> "ok"])

Webhook ==
    /\ \E raw \in gatewayBodies \cup forgedBodies :
        \E signature \in headersFor(raw) :
            \E dbFail \in (IF webhookVerified(signature, raw) /\ applicable(jsonParse(raw))
                           THEN {"none", "set", "add"} ELSE {"none"}) :
                webhook(signature, raw, dbFail)
    /\ UNCHANGED <<page, server, now, ticks, coreMembers, orders, captured, signIn>>

\* any request: also payloads of another shape
WebhookAny ==
    /\ \E raw \in gatewayBodies \cup forgedBodies \cup shapelessBodies :
        \E signature \in headersFor(raw) :
            \E dbFail \in (IF webhookVerified(signature, raw) /\ applicable(jsonParse(raw))
                           THEN {"none", "set", "add"} ELSE {"none"}) :
                webhook(signature, raw, dbFail)
    /\ UNCHANGED <<page, server, now, ticks, coreMembers, orders, captured, signIn>>

\* the gateway delivers an event about a captured payment, signed, at least once
GatewayDelivers ==
    /\ \E raw \in gatewayBodies :
        \E dbFail \in (IF webhookVerified(gatewaySignature(raw), raw) /\ applicable(jsonParse(raw))
                       THEN {"none", "set", "add"} ELSE {"none"}) :
            webhook(gatewaySignature(raw), raw, dbFail)
    /\ UNCHANGED <<page, server, now, ticks, coreMembers, orders, captured, signIn>>

(***************************************************************************)
(* The clock.                                                              *)
(***************************************************************************)
\* time passes: a day, or a year
ClockSteps == {1, 365}

Tick ==
    /\ ticks < MaxTicks
    /\ \E d \in ClockSteps : now' = now + d
    /\ ticks' = ticks + 1
    /\ last' = [op |-> "tick", status |-> 0]
    /\ UNCHANGED <<page, server, coreMembers, users, payments, orders, captured, signIn>>

(***************************************************************************)
(* The browser: sign-in, auth-state listener, profile saves.               *)
(***************************************************************************)
\* isCoreMember(user.email) && getRoleByEmail(user.email): the roster lists the user
isCore(u) == u \in coreMembers

\* the roster is configuration (environment variables, constants file): staff is
\* added between deployments
ConfigureCoreMember ==
    /\ \E u \in Uids \ coreMembers : coreMembers' = coreMembers \cup {u}
    /\ last' = [op |-> "configure", status |-> 0]
    /\ UNCHANGED <<page, server, now, ticks, users, payments, orders, captured, signIn>>

\* (a sign-in that created the record without a membership)
newUserData_noMembership(core) ==
    [exists |-> TRUE, role |-> IF core THEN "coreMember" ELSE "member",
     name |-> "displayName", membership |-> NoMembership]
\* newUserData of signInWithGoogle and handleRedirect
newUserData(core) ==
    [exists |-> TRUE,
     role |-> IF core THEN "coreMember" ELSE "member",
     name |-> "displayName",
     membership |-> [NoMembership EXCEPT !.status = IF core THEN "active" ELSE "inactive",
                                         !.type = IF core THEN "core" ELSE Null,
                                         !.expiresAt = NullDate]]

\* {...existingData.membership, status: 'active', type: 'core'} merged into the
\* stored membership: every field the snapshot has is written, with the value read
coreUpgradeMembership(stored, read) ==
    [status |-> "active",
     type |-> "core",
     startDate |-> IF read.startDate = NoDate THEN stored.startDate ELSE read.startDate,
     expiresAt |-> IF read.expiresAt = NoDate THEN stored.expiresAt ELSE read.expiresAt,
     planId |-> IF read.planId = Unset THEN stored.planId ELSE read.planId,
     expiryDate |-> IF read.expiryDate = NoDate THEN stored.expiryDate ELSE read.expiryDate]

\* signInWithGoogle, popup path, and handleRedirect: await getDoc(userRef)
SignInRead ==
    /\ \E u \in Uids, path \in {"popup", "redirect"} :
        /\ signIn[u].pc = "idle"
        /\ signIn' = [signIn EXCEPT ![u] = [pc |-> path, snap |-> [users[u] EXCEPT !.name = Unset]]]
    /\ last' = [op |-> "sign-in-read", status |-> 0]
    /\ UNCHANGED <<page, server, now, ticks, coreMembers, users, payments, orders, captured>>

\* the document signInWithGoogle leaves, given the one it read
signInDoc(u, stored, read) ==
    IF ~read.exists
    THEN newUserData(isCore(u))
    ELSE IF isCore(u) /\ read.role # "coreMember"
    THEN [stored EXCEPT !.exists = TRUE,
                        !.role = "coreMember",
                        !.membership = coreUpgradeMembership(stored.membership, read.membership)]
    ELSE stored

\* the document handleRedirect leaves: it only creates
redirectDoc(u, stored, read) ==
    IF ~read.exists THEN newUserData(isCore(u)) ELSE stored

\* the rest of the handler, after the read (last notes whether the read found a
\* document, and the status stored when the write arrives)
SignInWrite ==
    /\ \E u \in Uids :
        /\ signIn[u].pc # "idle"
        /\ users' = [users EXCEPT ![u] =
                        IF signIn[u].pc = "popup"
                        THEN signInDoc(u, @, signIn[u].snap)
                        ELSE redirectDoc(u, @, signIn[u].snap)]
        /\ signIn' = [signIn EXCEPT ![u] = Idle]
        /\ last' = [op |-> IF signIn[u].pc = "popup" THEN "sign-in" ELSE "redirect",
                    status |-> 0,
                    uid |-> u,
                    found |-> signIn[u].snap.exists,
                    was |-> users[u].membership.status]
    /\ UNCHANGED <<page, server, now, ticks, coreMembers, payments, orders, captured>>

\* onAuthStateChanged: a core member whose document does not say so gets the role
\* merged in; an admin's document is left alone
AuthStateListener ==
    /\ \E u \in Uids :
        /\ users' = [users EXCEPT ![u] =
                        IF users[u].role # "admin" /\ isCore(u) /\ users[u].role # "coreMember"
                        THEN [@ EXCEPT !.exists = TRUE, !.role = "coreMember"]
                        ELSE @]
    /\ last' = [op |-> "auth-state", status |-> 0]
    /\ UNCHANGED <<page, server, now, ticks, coreMembers, payments, orders, captured, signIn>>

\* the document of an administrator
AdminDoc == [newUserData(FALSE) EXCEPT !.role = "admin"]

\* signInWithPopup resolves: the user is signed in, signInWithGoogle goes on to
\* its getDoc and onAuthStateChanged calls the listener
PopupResolves ==
    /\ \E u \in Uids :
        /\ signIn[u].pc = "idle"
        /\ page.listener.pc = "idle"
        /\ signIn' = [signIn EXCEPT ![u] = [pc |-> "getDoc", snap |-> NoDoc]]
        /\ page' = [page EXCEPT !.listener = [pc |-> "getUserData", snap |-> NoDoc]]
        /\ last' = [op |-> "popup", status |-> 0, uid |-> u]
    /\ UNCHANGED <<server, now, ticks, coreMembers, users, payments, orders, captured>>

\* signInWithGoogle: await getDoc(userRef)
SignInGetDoc ==
    /\ \E u \in Uids :
        /\ signIn[u].pc = "getDoc"
        /\ signIn' = [signIn EXCEPT ![u] = [pc |-> "popup", snap |-> users[u]]]
        /\ last' = [op |-> "sign-in-getDoc", status |-> 0, uid |-> u]
    /\ UNCHANGED <<page, server, now, ticks, coreMembers, users, payments, orders, captured>>

\* completeUserData of signInWithGoogle: {name: user.displayName, ...finalUserData},
\* where finalUserData is newUserData, {...existingData, ...updatedData} or
\* existingData: the document that was read with what this sign-in wrote
completeUserData(u, existingData) ==
    [signInDoc(u, existingData, existingData) EXCEPT !.exists = TRUE]

\* signInWithGoogle after its getDoc: the write, and setUser(completeUserData)
\* whatever the role is
SignInSetUser ==
    /\ \E u \in Uids :
        /\ signIn[u].pc = "popup"
        /\ users' = [users EXCEPT ![u] = signInDoc(u, @, signIn[u].snap)]
        /\ signIn' = [signIn EXCEPT ![u] = Idle]
        /\ page' = [page EXCEPT !.user = completeUserData(u, signIn[u].snap)]
        /\ last' = [op |-> "sign-in-setUser", status |-> 0, uid |-> u]
    /\ UNCHANGED <<server, now, ticks, coreMembers, payments, orders, captured>>

\* the listener: await getUserData(firebaseUser.uid)
ListenerGetUserData ==
    /\ page.listener.pc = "getUserData"
    /\ \E u \in Uids :
        /\ page' = [page EXCEPT !.listener = [pc |-> "setUser", snap |-> users[u]]]
        /\ last' = [op |-> "listener-getUserData", status |-> 0, uid |-> u]
    /\ UNCHANGED <<server, now, ticks, coreMembers, users, payments, orders, captured, signIn>>

\* fullUserData of the listener: {name: firebaseUser.displayName, ...userData,
\* role: userRole} (userData is null when there is no document)
fullUserData(u, userData) ==
    [exists |-> TRUE,
     name |-> IF userData.exists THEN userData.name ELSE "displayName",
     role |-> IF isCore(u) THEN "coreMember"
              ELSE IF userData.exists THEN userData.role ELSE "member",
     membership |-> userData.membership]

\* userData?.role === 'admin'
isAdmin(userData) == userData.exists /\ userData.role = "admin"

\* the listener after getUserData: setUser(null) for an administrator; otherwise
\* the core member's role is merged into the document when the data read does not
\* have it, and setUser(fullUserData)
ListenerSetUser ==
    /\ page.listener.pc = "setUser"
    /\ \E u \in Uids :
        LET userData == page.listener.snap
        IN  /\ IF isAdmin(userData)
               THEN /\ page' = [page EXCEPT !.listener = Idle, !.user = NoDoc]
                    /\ users' = users
               ELSE /\ page' = [page EXCEPT !.listener = Idle,
                                            !.user = fullUserData(u, userData)]
                    /\ users' = [users EXCEPT ![u] =
                                    IF isCore(u) /\ userData.role # "coreMember"
                                    THEN [@ EXCEPT !.exists = TRUE, !.role = "coreMember"]
                                    ELSE @]
            /\ last' = [op |-> "listener-setUser", status |-> 0, uid |-> u,
                        admin |-> isAdmin(userData)]
    /\ UNCHANGED <<server, now, ticks, coreMembers, payments, orders, captured, signIn>>

\* const validRoles = [...]
validRoles == {"member", "coreMember", "admin", "User", "EXECUTIVE MEMBER", "core"}

\* updateData of handleSave, merged into the stored document by updateUserProfile:
\* the name of the form and the role that was read (existingData.role), kept when
\* it is a valid role
updateDataMerge(doc, name, existingRole) ==
    [doc EXCEPT !.exists = TRUE,
                !.name = name,
                !.role = IF existingRole \in validRoles THEN existingRole ELSE "member"]

\* (a profile form that wrote the membership)
handleSaveDoc_writesMembership(doc) ==
    [doc EXCEPT !.exists = TRUE, !.name = "edited", !.membership.status = "active"]
\* handleSave: updateData is built from the form and the stored role, and merged
\* by updateUserProfile; membership is not among its fields
handleSaveDoc(doc) == updateDataMerge(doc, "edited", doc.role)

\* (a handleSave between whose read and write nothing else writes the document;
\* HandleSaveRead and HandleSaveWrite are the two halves)
HandleSave ==
    /\ \E u \in Uids : users' = [users EXCEPT ![u] = handleSaveDoc(@)]
    /\ last' = [op |-> "profile-save", status |-> 0]
    /\ UNCHANGED <<page, server, now, ticks, coreMembers, payments, orders, captured, signIn>>

\* ProfileCompletionModal submit: name, phone, branch, year, usn and profile, merged
ProfileCompletionSubmit ==
    /\ \E u \in Uids : users' = [users EXCEPT ![u] = [@ EXCEPT !.exists = TRUE, !.name = "edited"]]
    /\ last' = [op |-> "profile-completion", status |-> 0]
    /\ UNCHANGED <<page, server, now, ticks, coreMembers, payments, orders, captured, signIn>>

(***************************************************************************)
(* The profile page: useProfileFirestore.                                  *)
(***************************************************************************)
\* what the form may hold (the form is modelled by its name field)
FormValues == {"edited", "edited again"}

\* the profile fetchProfile builds: data.name || user.name || ''
loadedProfile(doc, user) ==
    IF doc.exists /\ isSet(doc.name) THEN doc.name
    ELSE IF isSet(user.name) THEN user.name
    ELSE ""

\* what a step of the hook leaves in last
profileStep(op, failed) == [op |-> op, status |-> 0, failed |-> failed]

\* fetchProfile, run by the effect when the hook mounts and when the user of the
\* context changes (ok: getDoc resolves)
FetchProfile ==
    /\ page.profile.fetching
    /\ \E u \in Uids, ok \in BOOLEAN :
        IF ~page.user.exists
        THEN /\ page' = [page EXCEPT !.profile.loading = FALSE, !.profile.fetching = FALSE]
             /\ last' = profileStep("profile-load", TRUE)
        ELSE IF ok
        THEN /\ page' = [page EXCEPT
                            !.profile.profileData = loadedProfile(users[u], page.user),
                            !.profile.originalData = loadedProfile(users[u], page.user),
                            !.profile.saved = IF users[u].exists /\ isSet(users[u].name)
                                              THEN users[u].name
                                              ELSE loadedProfile(NoDoc, page.user),
                            !.profile.loading = FALSE,
                            !.profile.fetching = FALSE]
             /\ last' = profileStep("profile-load", FALSE)
        ELSE /\ page' = [page EXCEPT !.profile.loading = FALSE, !.profile.fetching = FALSE]
             /\ last' = profileStep("profile-load", TRUE)
    /\ UNCHANGED <<server, now, ticks, coreMembers, users, payments, orders, captured, signIn>>

\* handleEdit
HandleEdit ==
    /\ ~page.profile.isEditing
    /\ page' = [page EXCEPT !.profile.isEditing = TRUE]
    /\ last' = profileStep("profile-edit", FALSE)
    /\ UNCHANGED <<server, now, ticks, coreMembers, users, payments, orders, captured, signIn>>

\* handleInputChange
HandleInputChange ==
    /\ \E value \in FormValues :
        /\ value # page.profile.profileData
        /\ page' = [page EXCEPT !.profile.profileData = value]
    /\ last' = profileStep("profile-input", FALSE)
    /\ UNCHANGED <<server, now, ticks, coreMembers, users, payments, orders, captured, signIn>>

\* (a cancel that leaves the form as it is)
handleCancel_keepsForm(profile) == [profile EXCEPT !.isEditing = FALSE]
\* handleCancel: setIsEditing(false), and the form goes back to originalData when
\* there is one
handleCancel(profile) ==
    [profile EXCEPT !.isEditing = FALSE,
                    !.profileData = IF profile.originalData # NoData
                                    THEN profile.originalData ELSE @]

HandleCancel ==
    /\ page' = [page EXCEPT !.profile = handleCancel(@)]
    /\ last' = profileStep("profile-cancel", FALSE)
    /\ UNCHANGED <<server, now, ticks, coreMembers, users, payments, orders, captured, signIn>>

\* handleSave up to the end of await getDoc(userRef): the user, validateProfileData
\* (valid), setLoading(true), and the read of the stored document (ok: it resolves)
HandleSaveRead ==
    /\ page.profile.saving = NoData
    /\ \E u \in Uids, valid \in BOOLEAN, ok \in BOOLEAN :
        IF ~page.user.exists \/ ~valid
        THEN /\ page' = page
             /\ last' = profileStep("profile-save-read", TRUE)
        ELSE IF ~ok
        THEN /\ page' = [page EXCEPT !.profile.loading = FALSE]
             /\ last' = profileStep("profile-save-read", TRUE)
        ELSE /\ page' = [page EXCEPT !.profile.loading = TRUE,
                                     !.profile.saving = page.profile.profileData,
                                     !.profile.read = users[u].role]
             /\ last' = profileStep("profile-save-read", FALSE)
    /\ UNCHANGED <<server, now, ticks, coreMembers, users, payments, orders, captured, signIn>>

\* the rest of handleSave: updateUserProfile(updateData) merges updateData into the
\* document and into the user of the context (which runs fetchProfile again); on
\* success setOriginalData(profileData) with the form data handleSave was called
\* with, and setIsEditing(false); ok: the writes resolve
HandleSaveWrite ==
    /\ page.profile.saving # NoData
    /\ \E u \in Uids, ok \in BOOLEAN :
        IF ok
        THEN /\ users' = [users EXCEPT ![u] =
                            updateDataMerge(@, page.profile.saving, page.profile.read)]
             /\ page' = [page EXCEPT
                            !.user = [@ EXCEPT !.name = users'[u].name,
                                               !.role = users'[u].role],
                            !.profile.originalData = page.profile.saving,
                            !.profile.saved = users'[u].name,
                            !.profile.isEditing = FALSE,
                            !.profile.loading = FALSE,
                            !.profile.fetching = TRUE,
                            !.profile.saving = NoData,
                            !.profile.read = Unset]
             /\ last' = [op |-> "profile-save-write", status |-> 0, failed |-> FALSE,
                         uid |-> u]
        ELSE /\ page' = [page EXCEPT !.profile.loading = FALSE,
                                     !.profile.saving = NoData,
                                     !.profile.read = Unset]
             /\ last' = [op |-> "profile-save-write", status |-> 0, failed |-> TRUE,
                         uid |-> u]
             /\ UNCHANGED users
    /\ UNCHANGED <<server, now, ticks, coreMembers, payments, orders, captured, signIn>>

(***************************************************************************)
(* The admin pages.                                                        *)
(***************************************************************************)
\* removeMemberRole writes 'User'; the role select of the users table offers it too
AdminRoles == {"User"}

\* updateUser(userId, {role}) and removeMemberRole: updateDoc on an existing document
AdminUpdateRole ==
    /\ \E u \in Uids, r \in AdminRoles :
        /\ users[u].exists
        /\ users' = [users EXCEPT ![u].role = r]
    /\ last' = [op |-> "admin-role", status |-> 0]
    /\ UNCHANGED <<page, server, now, ticks, coreMembers, payments, orders, captured, signIn>>

(***************************************************************************)
(* The recruit page: handlePayment, the two limiters, the checkout script. *)
(***************************************************************************)
\* (a limiter that forgets every attempt)
recentAttempts_none(userAttempts, t) == <<>>
\* userAttempts.filter(timestamp => now - timestamp < 300000)
recentAttempts(userAttempts, t) ==
    SelectSeq(userAttempts, LAMBDA timestamp : t - timestamp < RateWindow)

\* checkPaymentRateLimit: the counter starts again when the last attempt is more
\* than the window ago
checkPaymentRateLimit(pg) ==
    IF pg.lastPaymentTime # NoDate /\ pg.clock - pg.lastPaymentTime > RateWindow
    THEN [pg EXCEPT !.paymentAttempts = 0]
    ELSE pg

\* PaymentService.checkRateLimit: throws when the attempts of the last window are
\* RateLimit already, and notes the attempt otherwise
checkRateLimit(pg) ==
    LET recent == recentAttempts(pg.rateLimitMap, pg.clock)
    IN  IF Len(recent) >= RateLimit
        THEN [page |-> pg, thrown |-> TRUE]
        ELSE [page |-> [pg EXCEPT !.rateLimitMap = Append(recent, pg.clock)],
              thrown |-> FALSE]

\* initializePayment -> PaymentService.createOrder: checkRateLimit, then (the
\* form data being valid) the /create-order request.  stopped says where the
\* attempt ended ("none": the request was sent)
serviceCreateOrder(pg) ==
    LET checked == checkRateLimit(pg)
    IN  IF checked.thrown
        THEN [page |-> pg, stopped |-> "service"]
        ELSE [page |-> [checked.page EXCEPT !.sent = Append(@, pg.clock),
                                            !.sentSinceLoad = Append(@, pg.clock)],
              stopped |-> "none"]

\* what an attempt leaves in last: where it stopped, and whether the profile read
\* (getUserData) and the /create-order request went out
attempt(op, stopped) ==
    [op |-> op, status |-> 0, stopped |-> stopped, read |-> op = "handle-payment",
     order |-> stopped = "none"]

\* handlePayment of a signed-in user without membership and with a complete
\* profile, up to the first await that waits for an event
HandlePayment ==
    /\ Len(page.sent) < MaxSent
    /\  LET checked == checkPaymentRateLimit(page)
            counted == [checked EXCEPT !.paymentAttempts = @ + 1,
                                       !.lastPaymentTime = page.clock]
        IN  IF checked.paymentAttempts >= RateLimit
            THEN /\ page' = checked
                 /\ last' = attempt("handle-payment", "hook")
            ELSE IF counted.Razorpay
            THEN /\ page' = serviceCreateOrder(counted).page
                 /\ last' = attempt("handle-payment", serviceCreateOrder(counted).stopped)
            ELSE \* loadRazorpayScript: no window.Razorpay, so a script tag is appended
                 /\ page.scripts < MaxScripts
                 /\ page' = [counted EXCEPT !.scripts = @ + 1, !.waiting = @ + 1]
                 /\ last' = attempt("handle-payment", "script")
    /\ UNCHANGED <<server, now, ticks, coreMembers, users, payments, orders, captured, signIn>>

\* script.onload of a tag some call waits for: window.Razorpay exists, the call
\* goes on to initializePayment
ScriptOnload ==
    /\ page.waiting > 0
    /\ Len(page.sent) < MaxSent
    /\  LET loaded == [page EXCEPT !.Razorpay = TRUE, !.waiting = @ - 1]
        IN  /\ page' = serviceCreateOrder(loaded).page
            /\ last' = attempt("script-onload", serviceCreateOrder(loaded).stopped)
    /\ UNCHANGED <<server, now, ticks, coreMembers, users, payments, orders, captured, signIn>>

\* script.onerror: the call throws 'Failed to load payment gateway'
ScriptOnerror ==
    /\ page.waiting > 0
    /\ page' = [page EXCEPT !.waiting = @ - 1]
    /\ last' = attempt("script-onerror", "script")
    /\ UNCHANGED <<server, now, ticks, coreMembers, users, payments, orders, captured, signIn>>

\* the success callback of a checkout: paymentAttempts.current = 0
PaymentSucceeds ==
    /\ Len(page.sentSinceLoad) > 0
    /\ page.paymentAttempts > 0
    /\ page' = [page EXCEPT !.paymentAttempts = 0]
    /\ last' = [op |-> "payment-success", status |-> 0]
    /\ UNCHANGED <<server, now, ticks, coreMembers, users, payments, orders, captured, signIn>>

\* the failure callback (payment failed, or the checkout was dismissed): a toast,
\* and nothing of the limiters changes
PaymentFails ==
    /\ Len(page.sentSinceLoad) > 0
    /\ page' = page
    /\ last' = [op |-> "payment-failure", status |-> 0]
    /\ UNCHANGED <<server, now, ticks, coreMembers, users, payments, orders, captured, signIn>>

\* a minute passes
PageTick ==
    /\ page.clock < MaxClock
    /\ page' = [page EXCEPT !.clock = @ + 1]
    /\ last' = [op |-> "minute", status |-> 0]
    /\ UNCHANGED <<server, now, ticks, coreMembers, users, payments, orders, captured, signIn>>

\* the user loads the page again: the module and the hook are constructed anew
Reload ==
    /\ page.reloads < MaxReloads
    /\ page.rateLimitMap # <<>>
    /\ page' = [PageLoad EXCEPT !.clock = page.clock, !.sent = page.sent,
                                !.reloads = page.reloads + 1]
    /\ last' = [op |-> "reload", status |-> 0]
    /\ UNCHANGED <<server, now, ticks, coreMembers, users, payments, orders, captured, signIn>>

(***************************************************************************)
(* One run of handlePayment, step by step: the gates, the script, the      *)
(* order, the checkout overlay, the handler and the verification.          *)
(***************************************************************************)
\* what a step of the run leaves in last: the toast shown, the callback run, and
\* whether the step ended the run by an error
flowStep(op, toast, callback, failed) ==
    [op |-> op, status |-> 0, toast |-> toast, callback |-> callback, failed |-> failed]

\* the steps of a run
FlowOps ==
    {"handle-payment-start", "handle-payment-fresh", "script-loaded", "script-failed",
     "create-order-failed", "create-order-returns", "checkout-dismissed",
     "checkout-handler", "verify-payment-returns"}

\* the failure callback of handlePayment: toast.error, setLoading(false)
onFailure(pg, op) ==
    /\ page' = [pg EXCEPT !.loading = FALSE, !.pc = "idle", !.response = NoResponse]
    /\ last' = flowStep(op, "error", "onFailure", TRUE)

\* the catch block of handlePayment: toast.error, setLoading(false)
caught(pg, op) ==
    /\ page' = [pg EXCEPT !.loading = FALSE, !.pc = "idle"]
    /\ last' = flowStep(op, "error", "none", TRUE)

\* the success callback: toast.success, paymentAttempts.current = 0, and
\* navigate('/profile') two seconds later; loading stays as it is
onSuccess(pg) ==
    [pg EXCEPT !.paymentAttempts = 0, !.pc = "idle", !.navigated = "/profile"]

\* useState('one-year'): the plan the form starts with
selectedPlan == "one-year"

\* the order PaymentService.createOrder makes up when no API base URL is set
localOrder(planId) ==
    [orderId |-> <<"order_transactionId">>, amount |-> MEMBERSHIP_PLANS[planId].price * 100]

\* new window.Razorpay(options); razorpay.open()
openCheckout(pg, order, op) ==
    /\ page' = [pg EXCEPT !.order = order, !.pc = "checkout", !.response = NoResponse]
    /\ last' = flowStep(op, "none", "none", FALSE)

\* initializePayment up to its first await that waits for the network: the key,
\* createOrder with checkRateLimit, the plan and validatePaymentData (valid: the
\* form data passes), and the /create-order request when an API base URL is set
initializePayment(pg, op) ==
    IF ~pg.razorpayKeyId
    THEN onFailure(pg, op)
    ELSE LET checked == checkRateLimit(pg)
         IN  IF checked.thrown
             THEN onFailure(pg, op)
             ELSE \E valid \in BOOLEAN :
                    IF ~valid
                    THEN onFailure(checked.page, op)
                    ELSE IF pg.apiBaseUrl
                    THEN /\ page' = [checked.page EXCEPT !.sent = Append(@, pg.clock),
                                                         !.sentSinceLoad = Append(@, pg.clock),
                                                         !.pc = "create-order"]
                         /\ last' = flowStep(op, "none", "none", FALSE)
                    ELSE openCheckout(checked.page, localOrder(selectedPlan), op)

\* (a gate that lets active members through)
alreadyActive_never(user) == FALSE
\* user.membership?.status === 'active', on the user of the context
alreadyActive(user) == user.membership.status = "active"

\* handlePayment up to the await of getUserData: the user and the membership of
\* the context are checked (the form is there until the page navigates: at once
\* for an incomplete profile, two seconds after a success)
HandlePaymentStart ==
    /\ page.pc = "idle"
    /\ page.navigated # "/profile?returnTo=/recruit"
    /\ Len(page.sent) < MaxSent
    /\ IF ~page.user.exists
       THEN /\ page' = page
            /\ last' = flowStep("handle-payment-start", "error", "none", TRUE)
       ELSE IF alreadyActive(page.user)
       THEN /\ page' = page
            /\ last' = flowStep("handle-payment-start", "error", "none", TRUE)
       ELSE /\ page' = [page EXCEPT !.pc = "getUserData", !.complete = FALSE]
            /\ last' = flowStep("handle-payment-start", "none", "none", FALSE)
    /\ UNCHANGED <<server, now, ticks, coreMembers, users, payments, orders, captured, signIn>>

\* handlePayment after getUserData: the profile check on the fresh data (complete:
\* phone, branch, year, usn and name are there), the rate check, setLoading(true),
\* the counter, and loadRazorpayScript
HandlePaymentFresh ==
    /\ page.pc = "getUserData"
    /\ \E complete \in BOOLEAN :
        LET checked == checkPaymentRateLimit(page)
            counted == [checked EXCEPT !.paymentAttempts = @ + 1,
                                       !.lastPaymentTime = page.clock,
                                       !.loading = TRUE,
                                       !.complete = TRUE]
        IN  IF ~complete
            THEN /\ page' = [page EXCEPT !.pc = "idle",
                                         !.navigated = "/profile?returnTo=/recruit"]
                 /\ last' = flowStep("handle-payment-fresh", "error", "none", TRUE)
            ELSE IF checked.paymentAttempts >= RateLimit
            THEN /\ page' = [checked EXCEPT !.pc = "idle"]
                 /\ last' = flowStep("handle-payment-fresh", "error", "none", TRUE)
            ELSE IF counted.Razorpay
            THEN initializePayment(counted, "handle-payment-fresh")
            ELSE /\ page.scripts < MaxScripts
                 /\ page' = [counted EXCEPT !.scripts = @ + 1, !.pc = "script"]
                 /\ last' = flowStep("handle-payment-fresh", "none", "none", FALSE)
    /\ UNCHANGED <<server, now, ticks, coreMembers, users, payments, orders, captured, signIn>>

\* script.onload: loadRazorpayScript resolves true and the run goes on
RazorpayScriptLoaded ==
    /\ page.pc = "script"
    /\ initializePayment([page EXCEPT !.Razorpay = TRUE], "script-loaded")
    /\ UNCHANGED <<server, now, ticks, coreMembers, users, payments, orders, captured, signIn>>

\* script.onerror: loadRazorpayScript resolves false, handlePayment throws
\* 'Failed to load payment gateway' into its catch block
RazorpayScriptFailed ==
    /\ page.pc = "script"
    /\ caught(page, "script-failed")
    /\ UNCHANGED <<server, now, ticks, coreMembers, users, payments, orders, captured, signIn>>

\* the server handles the /create-order request of the run: plan.price of the
\* client catalog is the amount field, and the response travels back
CreateOrderServed ==
    /\ page.pc = "create-order"
    /\ \E userId \in Uids :
        \E fault \in faultsFor(userId, selectedPlan) :
            createOrder(userId, selectedPlan, MEMBERSHIP_PLANS[selectedPlan].price, fault,
                        OrderIds \cup LaterOrderIds)
    /\ page' = [page EXCEPT !.pc = "order-response",
                            !.response = [status |-> last'.status, body |-> last'.body]]
    /\ UNCHANGED <<server, now, ticks, coreMembers, users, payments, captured, signIn>>

\* fetch rejects: the request does not reach the server
CreateOrderFailed ==
    /\ page.pc = "create-order"
    /\ onFailure(page, "create-order-failed")
    /\ UNCHANGED <<server, now, ticks, coreMembers, users, payments, orders, captured, signIn>>

\* createOrder reads the response: !response.ok throws 'Failed to create payment
\* order', otherwise the order is the body and the checkout opens
CreateOrderReturns ==
    /\ page.pc = "order-response"
    /\ IF page.response.status = 200
       THEN openCheckout(page, [orderId |-> page.response.body.orderId,
                                amount |-> page.response.body.amount],
                         "create-order-returns")
       ELSE onFailure(page, "create-order-returns")
    /\ UNCHANGED <<server, now, ticks, coreMembers, users, payments, orders, captured, signIn>>

\* the user pays in the overlay and the gateway captures the payment of the
\* order, with the notes of the options (userId, planId)
CheckoutPays ==
    /\ page.pc = "checkout"
    /\ \E id \in PaymentIds \ issuedPaymentIds, k \in 1..Len(orders), userId \in Uids :
        /\ orders[k].id = page.order.orderId
        /\ ~orderPaid(k)
        /\ captured' = Append(captured, paymentEntity(id, k, userId, selectedPlan))
    /\ last' = [op |-> "checkout", status |-> 0]
    /\ UNCHANGED <<page, server, now, ticks, coreMembers, users, payments, orders, signIn>>

\* modal.ondismiss: onFailure('Payment cancelled by user')
CheckoutDismissed ==
    /\ page.pc = "checkout"
    /\ onFailure(page, "checkout-dismissed")
    /\ UNCHANGED <<server, now, ticks, coreMembers, users, payments, orders, captured, signIn>>

\* what options.handler is called with: the triple of a payment the gateway
\* captured for the order, or whatever a script in the page passes
handlerResponses(orderId) ==
    {[razorpay_order_id |-> orderId, razorpay_payment_id |-> captured[i].id,
      razorpay_signature |-> checkoutSignature(orderId, captured[i].id)] :
        i \in {j \in 1..Len(captured) : captured[j].order_id = orderId}}
    \cup {[razorpay_order_id |-> orderId, razorpay_payment_id |-> <<"pay_forged">>,
           razorpay_signature |-> GarbageSignature]}

\* options.handler -> verifyPayment: with an API base URL the triple is sent to
\* /verify-payment, without one onSuccess runs at once
CheckoutHandler ==
    /\ page.pc = "checkout"
    /\ \E response \in handlerResponses(page.order.orderId) :
        IF page.apiBaseUrl
        THEN /\ page' = [page EXCEPT !.pc = "verify-payment", !.triple = response]
             /\ last' = [op |-> "checkout-handler", status |-> 0, toast |-> "none",
                         callback |-> "none", failed |-> FALSE, triple |-> response,
                         forwarded |-> TRUE, verified |-> FALSE]
        ELSE /\ page' = onSuccess([page EXCEPT !.triple = response])
             /\ last' = [op |-> "checkout-handler", status |-> 0, toast |-> "success",
                         callback |-> "onSuccess", failed |-> FALSE, triple |-> response,
                         forwarded |-> FALSE, verified |-> FALSE]
    /\ UNCHANGED <<server, now, ticks, coreMembers, users, payments, orders, captured, signIn>>

\* (a client that does not look at the verdict)
paymentVerified_always(ok, verified) == TRUE
\* response.ok and result.verified
paymentVerified(ok, verified) == ok /\ verified

\* /verify-payment answers (or the fetch rejects: reached is false) and
\* verifyPayment reads the answer: onSuccess when verified, and otherwise an
\* error thrown out of the handler, which nothing catches
VerifyPaymentReturns ==
    /\ page.pc = "verify-payment"
    /\ \E reached \in BOOLEAN :
        LET t == page.triple
            accepted == verifySignature(t.razorpay_order_id, t.razorpay_payment_id,
                                        t.razorpay_signature)
            ok == reached /\ accepted
            verified == reached /\ accepted
        IN  IF paymentVerified(ok, verified)
            THEN /\ page' = onSuccess(page)
                 /\ last' = [op |-> "verify-payment-returns", status |-> 0,
                             toast |-> "success", callback |-> "onSuccess",
                             failed |-> FALSE, triple |-> t,
                             forwarded |-> reached, verified |-> verified]
            ELSE /\ page' = [page EXCEPT !.pc = "idle"]
                 /\ last' = [op |-> "verify-payment-returns", status |-> 0,
                             toast |-> "none", callback |-> "none",
                             failed |-> TRUE, triple |-> t,
                             forwarded |-> reached, verified |-> verified]
    /\ UNCHANGED <<server, now, ticks, coreMembers, users, payments, orders, captured, signIn>>

(***************************************************************************)
(* Specifications.                                                         *)
(***************************************************************************)
\* the payment server and the gateway
Next ==
    \/ CreateOrder
    \/ VerifyPayment
    \/ GatewayCapture
    \/ Webhook
    \/ Tick

Spec == Init /\ [][Next]_vars

\* /verify-payment alone, over all identifier strings
NextVerify == VerifyPaymentAny

SpecVerify == Init /\ [][NextVerify]_vars

\* The user documents: every code path that writes them.  The run starts when the
\* gateway has captured one payment of a one-year order, whatever its notes say.
InitAccounts ==
    /\ server \in Servers
    /\ now = Day0
    /\ ticks = 0
    /\ coreMembers = {}
    /\ users = [u \in Uids |-> NoDoc]
    /\ payments = <<>>
    /\ signIn = [u \in Uids |-> Idle]
    /\ last = NoRequest
    /\ page = PageLoad
    /\ \E userId \in Uids, planId \in {"one-year", "lifetime"} :
        /\ orders = <<[id |-> <<"order_1">>, amount |-> orderAmount("one-year", 358),
                       currency |-> "INR",
                       notes |-> [userId |-> "u1", planId |-> "one-year",
                                  planName |-> MEMBERSHIP_PLANS["one-year"].name]]>>
        /\ captured = <<[id |-> <<"pay_1">>, order_id |-> <<"order_1">>,
                         amount |-> orderAmount("one-year", 358), currency |-> "INR",
                         notes |-> [userId |-> userId, planId |-> planId]]>>

NextAccounts ==
    \/ GatewayDelivers
    \/ Tick
    \/ ConfigureCoreMember
    \/ SignInRead
    \/ SignInWrite
    \/ AuthStateListener
    \/ HandleSave
    \/ ProfileCompletionSubmit
    \/ AdminUpdateRole

SpecAccounts == InitAccounts /\ [][NextAccounts]_vars

\* /create-order for a user who has paid an order before: deliveries of the
\* webhook, the clock and further order requests
NextOrders ==
    \/ GatewayDelivers
    \/ Tick
    \/ CreateOrderAgain

SpecOrders == InitAccounts /\ [][NextOrders]_vars

\* /webhook alone, under every request: the run starts when the gateway has
\* captured one payment of an order, whatever plan was ordered and whatever the
\* notes of the payment say
InitWebhook ==
    /\ server \in Servers
    /\ now = Day0
    /\ ticks = 0
    /\ coreMembers = {}
    /\ users = [u \in Uids |-> NoDoc]
    /\ payments = <<>>
    /\ signIn = [u \in Uids |-> Idle]
    /\ last = NoRequest
    /\ page = PageLoad
    /\ \E ordered \in PlanIds, userId \in Uids \cup {Unset},
          planId \in PlanIds \cup {"lifetime", Unset} :
        /\ orders = <<[id |-> <<"order_1">>, amount |-> orderAmount(ordered, 358),
                       currency |-> "INR",
                       notes |-> [userId |-> "u1", planId |-> ordered,
                                  planName |-> MEMBERSHIP_PLANS[ordered].name]]>>
        /\ captured = <<[id |-> <<"pay_1">>, order_id |-> <<"order_1">>,
                         amount |-> orderAmount(ordered, 358), currency |-> "INR",
                         notes |-> [userId |-> userId, planId |-> planId]]>>

NextWebhook ==
    \/ WebhookAny
    \/ Tick

SpecWebhook == InitWebhook /\ [][NextWebhook]_vars

\* the guarded server when order requests, payments and webhook deliveries of one
\* user interleave
NextPurchases ==
    \/ CreateOrderUnpaid
    \/ GatewayCaptureOrder
    \/ GatewayDelivers
    \/ Tick

InitPurchases == Init /\ server = "guarded"

SpecPurchases == InitPurchases /\ [][NextPurchases]_vars

\* the recruit page of one signed-in user
NextPage ==
    \/ HandlePayment
    \/ ScriptOnload
    \/ ScriptOnerror
    \/ PaymentSucceeds
    \/ PaymentFails
    \/ PageTick
    \/ Reload

InitPage == Init /\ server = "guarded"

SpecPage == InitPage /\ [][NextPage]_vars

\* days since the webhook wrote a membership of one year that has run out
LapsedDays == 400

\* The recruit page of one user and the payment server behind it.  The run starts
\* with the user's document as a sign-in, a webhook or nobody left it, and with
\* the context holding no user, the document, or what the document was before the
\* webhook wrote it; the build has the API base URL and the key set or not.  A membership
\* stays "active" after its expiresAt: nothing in the code sets it back.
StoredDocs ==
    {NoDoc, newUserData(FALSE), newUserData(TRUE),
     webhookMerge(newUserData(FALSE), "one-year", Day0),
     webhookMerge(newUserData(FALSE), "one-year", Day0 - LapsedDays)}

InitCheckout ==
    /\ server \in Servers
    /\ now = Day0
    /\ ticks = 0
    /\ coreMembers = {}
    /\ payments = <<>>
    /\ orders = <<>>
    /\ captured = <<>>
    /\ signIn = [u \in Uids |-> Idle]
    /\ last = NoRequest
    /\ \E stored \in StoredDocs, apiBaseUrl \in BOOLEAN, razorpayKeyId \in BOOLEAN :
        \E user \in {NoDoc, stored, newUserData(FALSE)} :
            /\ users = [u \in Uids |-> stored]
            /\ page = [PageLoad EXCEPT !.apiBaseUrl = apiBaseUrl,
                                       !.razorpayKeyId = razorpayKeyId,
                                       !.user = user]

NextCheckout ==
    \/ HandlePaymentStart
    \/ HandlePaymentFresh
    \/ RazorpayScriptLoaded
    \/ RazorpayScriptFailed
    \/ CreateOrderServed
    \/ CreateOrderFailed
    \/ CreateOrderReturns
    \/ CheckoutPays
    \/ CheckoutDismissed
    \/ CheckoutHandler
    \/ VerifyPaymentReturns

SpecCheckout == InitCheckout /\ [][NextCheckout]_vars

\* The profile page of a signed-in user (with or without a document yet) whose
\* payment of a one-year order the gateway has captured: the hook, and the webhook
\* deliveries that write the same document.
InitProfile ==
    /\ server \in Servers
    /\ now = Day0
    /\ ticks = 0
    /\ coreMembers = {}
    /\ payments = <<>>
    /\ signIn = [u \in Uids |-> Idle]
    /\ last = NoRequest
    /\ orders = <<[id |-> <<"order_1">>, amount |-> orderAmount("one-year", 358),
                   currency |-> "INR",
                   notes |-> [userId |-> "u1", planId |-> "one-year",
                              planName |-> MEMBERSHIP_PLANS["one-year"].name]]>>
    /\ captured = <<[id |-> <<"pay_1">>, order_id |-> <<"order_1">>,
                     amount |-> orderAmount("one-year", 358), currency |-> "INR",
                     notes |-> [userId |-> "u1", planId |-> "one-year"]]>>
    /\ \E stored \in {NoDoc, newUserData(FALSE)} :
        /\ users = [u \in Uids |-> stored]
        /\ page = [PageLoad EXCEPT !.user = newUserData(FALSE)]

NextProfile ==
    \/ FetchProfile
    \/ HandleEdit
    \/ HandleInputChange
    \/ HandleSaveRead
    \/ HandleSaveWrite
    \/ HandleCancel
    \/ GatewayDelivers

SpecProfile == InitProfile /\ [][NextProfile]_vars

\* The user context of one browser: the account has no document, a member's
\* document or an administrator's; the user signs in with the popup, and the
\* listener runs beside signInWithGoogle; the roster and the admin pages change
\* the role meanwhile.
InitContext ==
    /\ server = "guarded"
    /\ now = Day0
    /\ ticks = 0
    /\ coreMembers \in SUBSET Uids
    /\ payments = <<>>
    /\ orders = <<>>
    /\ captured = <<>>
    /\ signIn = [u \in Uids |-> Idle]
    /\ last = NoRequest
    /\ page = PageLoad
    /\ \E stored \in {NoDoc, newUserData(FALSE), AdminDoc} : users = [u \in Uids |-> stored]

NextContext ==
    \/ PopupResolves
    \/ SignInGetDoc
    \/ SignInSetUser
    \/ ListenerGetUserData
    \/ ListenerSetUser
    \/ AdminUpdateRole

SpecContext == InitContext /\ [][NextContext]_vars

(***************************************************************************)
(* Properties.                                                             *)
(***************************************************************************)
\* rows of the ledger
Rows == 1..Len(payments)

\* the step just taken handled a /webhook request that passed verification and
\* carried payment.captured with both notes, and answered 200
appliedStep ==
    /\ last'.op = "webhook"
    /\ last'.status = 200
    /\ webhookDigest(last'.req.raw) = last'.req.signature
    /\ applicable(jsonParse(last'.req.raw))

\* C1: every order /create-order asks the gateway for has the amount
\* plan.price * 100 of the server catalog, for the plan id of the request, and the
\* response reports that amount; the amount of the request body plays no part.
C1_OrderAmountFromCatalog ==
    /\ \A k \in 1..Len(orders) :
        /\ orders[k].notes.planId \in PlanIds
        /\ orders[k].amount = MEMBERSHIP_PLANS[orders[k].notes.planId].price * 100
    /\ (last.op = "create-order" /\ last.status = 200) =>
        /\ last.req.planId \in PlanIds
        /\ last.body.amount = MEMBERSHIP_PLANS[last.req.planId].price * 100
        /\ \E k \in 1..Len(orders) :
            /\ orders[k].id = last.body.orderId
            /\ orders[k].amount = last.body.amount
            /\ orders[k].notes.planId = last.req.planId

\* an order was created for a request whose amount field is not the plan's price
C1_Witness ==
    /\ last.op = "create-order"
    /\ last.status = 200
    /\ last.req.planId = "three-year"
    /\ last.req.amount # MEMBERSHIP_PLANS["three-year"].price
    /\ Len(orders) > 0

\* C2: a /webhook request whose x-razorpay-signature header is not the HMAC of
\* the request body (the text sent) under WEBHOOK_SECRET changes no user document
\* and appends no ledger row.
C2_WrongSignatureNeverMutates ==
    [][(last'.op = "webhook"
        /\ last'.req.signature # createHmac(WEBHOOK_SECRET, last'.req.raw))
       => (users' = users /\ payments' = payments)]_vars

\* C3: /verify-payment answers 200 {verified: true} exactly when the signature is
\* HMAC-SHA256(RAZORPAY_KEY_SECRET, order_id + "|" + payment_id), and 400
\* {verified: false} otherwise; an accepted triple with one character of the
\* order id or of the payment id changed, or with another signature, is rejected.
C3_VerifyIffSignature ==
    last.op = "verify-payment" =>
        LET o == last.req.razorpay_order_id
            q == last.req.razorpay_payment_id
            g == last.req.razorpay_signature
            accepted == last.status = 200 /\ last.body.verified
        IN  /\ accepted <=> g = createHmac(RAZORPAY_KEY_SECRET, o \o <<"|">> \o q)
            /\ ~accepted => (last.status = 400 /\ ~last.body.verified)
            /\ accepted =>
                /\ \A o2 \in singleCharMutations(o) : ~verifySignature(o2, q, g)
                /\ \A q2 \in singleCharMutations(q) : ~verifySignature(o, q2, g)
                /\ \A g2 \in TriedSignatures(o, q) \ {g} : ~verifySignature(o, q, g2)

\* a triple was accepted whose identifiers hold the separator character, so that
\* another split of the same signed string exists
C3_Witness ==
    /\ last.op = "verify-payment"
    /\ last.status = 200
    /\ last.req.razorpay_order_id = <<"a", "|">>
    /\ last.req.razorpay_payment_id = <<"a">>

\* C4: a verified payment.captured request with both notes sets the user's
\* membership.status to "active" and membership.type to the planId of the notes,
\* and keeps the other fields of the document.
C4_WebhookActivates ==
    [][appliedStep =>
        LET notes == last'.req.raw.entity.notes
        IN  /\ users'[notes.userId].exists
            /\ users'[notes.userId].membership.status = "active"
            /\ users'[notes.userId].membership.type = notes.planId
            /\ users'[notes.userId].name = users[notes.userId].name]_vars

\* C5: a verified payment.captured request with both notes appends exactly one
\* ledger row, carrying the payload's userId, paymentId, orderId and planId, whose
\* amount is the catalog price of the plan in the notes.
C5_OneRowAtCatalogPrice ==
    [][appliedStep =>
        LET payment == last'.req.raw.entity
        IN  /\ Len(payments') = Len(payments) + 1
            /\ SubSeq(payments', 1, Len(payments)) = payments
            /\ LET row == payments'[Len(payments')]
               IN  /\ row.userId = payment.notes.userId
                   /\ row.paymentId = payment.id
                   /\ row.orderId = payment.order_id
                   /\ row.planId = payment.notes.planId
                   /\ row.planId \in PlanIds
                   /\ row.amount = MEMBERSHIP_PLANS[row.planId].price]_vars

\* C6: delivering a verified payment.captured event again (its payment id is in
\* the ledger already) leaves the user's membership as the first delivery left it.
C6_ActivationIdempotent ==
    [][(appliedStep
        /\ \E r \in Rows : payments[r].paymentId = last'.req.raw.entity.id)
       => users'[last'.req.raw.entity.notes.userId].membership
            = users[last'.req.raw.entity.notes.userId].membership]_vars

\* C7: the ledger holds one row per captured payment: no two rows have the same
\* paymentId.
C7_OneRowPerPayment ==
    \A r1, r2 \in Rows : r1 # r2 => payments[r1].paymentId # payments[r2].paymentId

\* the other half of C7: a row once appended is never changed or removed
C7_AppendOnly ==
    [][Len(payments') >= Len(payments)
       /\ SubSeq(payments', 1, Len(payments)) = payments]_vars

activates(u) ==
    /\ users[u].membership.status = "inactive"
    /\ users'[u].membership.status = "active"

\* C9: only the webhook handler, on a verified payment.captured event, changes a
\* membership.status from "inactive" to "active".
C9_OnlyWebhookActivates ==
    [][\A u \in Uids : activates(u) =>
        /\ last'.op = "webhook"
        /\ webhookDigest(last'.req.raw) = last'.req.signature
        /\ last'.req.raw.event = "payment.captured"]_vars

\* C9 as amended: a membership.status changes from "inactive" to "active" only in
\* the webhook handler on a verified payment.captured event, or in a sign-in path
\* (signInWithGoogle, handleRedirect) of a user the core-member roster lists, which
\* writes type "core".
C9_OnlyWebhookOrCoreSignInActivates ==
    [][\A u \in Uids : activates(u) =>
        \/ /\ last'.op = "webhook"
           /\ webhookDigest(last'.req.raw) = last'.req.signature
           /\ last'.req.raw.event = "payment.captured"
           /\ last'.req.raw.entity.notes.userId = u
        \/ /\ last'.op \in {"sign-in", "redirect"}
           /\ last'.uid = u
           /\ isCore(u)
           /\ users'[u].membership.type = "core"]_vars

\* signInWithGoogle found the document of a user who has since joined the roster,
\* and turned the stored inactive membership into an active one
C9_Witness ==
    \E u \in Uids :
        /\ last.op = "sign-in"
        /\ last.uid = u
        /\ last.found
        /\ last.was = "inactive"
        /\ users[u].membership.status = "active"
        /\ users[u].membership.type = "core"

\* C10: a /verify-payment request, accepted or rejected, creates and changes no
\* user document and no ledger row.
C10_VerifyIsPure ==
    [][last'.op = "verify-payment" => (users' = users /\ payments' = payments)]_vars

\* a forwarded triple was accepted while a membership and a ledger row were on
\* record
C10_Witness ==
    /\ last.op = "verify-payment"
    /\ last.status = 200
    /\ Len(payments) > 0
    /\ \E u \in Uids : users[u].membership.status = "active"

\* C11: the expiry the webhook writes for a plan of N years is the day before the
\* day of handling plus N calendar years (same month and day N years on; for 29
\* February the last day of February or 1 March), for every plan of the catalog.
C11_ExpiryIsYesterdayPlusYears ==
    [][(appliedStep /\ last'.req.raw.entity.notes.planId \in PlanIds) =>
        LET notes == last'.req.raw.entity.notes
            N == CASE notes.planId = "one-year" -> 1
                   [] notes.planId = "two-year" -> 2
                   [] notes.planId = "three-year" -> 3
            c == civilFromDays(now - 1)
            sameDay == daysFromCivil(c[1] + N, c[2], c[3])
            lastOfMonth == daysFromCivil(c[1] + N, c[2], daysInMonth(c[1] + N, c[2]))
        IN  users'[notes.userId].membership.expiresAt
                \in (IF c[3] <= daysInMonth(c[1] + N, c[2])
                     THEN {sameDay}
                     ELSE {lastOfMonth, lastOfMonth + 1})]_vars

\* the guarded server alone: the same day N years on, counted from the first of
\* the month (so that 29 February gives 1 March)
C11_GuardedExpiry ==
    [][(appliedStep /\ last'.req.raw.entity.notes.planId \in PlanIds /\ server = "guarded") =>
        LET notes == last'.req.raw.entity.notes
            N == CASE notes.planId = "one-year" -> 1
                   [] notes.planId = "two-year" -> 2
                   [] notes.planId = "three-year" -> 3
            c == civilFromDays(now - 1)
        IN  users'[notes.userId].membership.expiresAt
                = daysFromCivil(c[1] + N, c[2], 1) + c[3] - 1]_vars


\* C12: on the server with the duplicate guard, /create-order for a user whose
\* membership is active with expiresAt later than now answers 400 and creates no
\* order, whatever the plan id (so after a webhook activated the user, until
\* expiresAt passes); on the server without the guard the same request, for a
\* plan of the catalog, creates a new order.
C12_GuardRejectsActive ==
    [][(last'.op = "create-order" /\ last'.req.userId \in Uids /\ last'.fault = "none") =>
        LET doc == users[last'.req.userId]
        IN  /\ (server = "guarded"
                /\ doc.membership.status = "active"
                /\ isSetDate(doc.membership.expiresAt)
                /\ doc.membership.expiresAt > now)
               => (last'.status = 400 /\ orders' = orders)
            /\ (server = "guarded"
                /\ \E r \in Rows : payments[r].userId = last'.req.userId
                /\ isSetDate(doc.membership.expiresAt)
                /\ doc.membership.expiresAt > now)
               => (last'.status = 400 /\ orders' = orders)
            /\ (server = "backend"
                /\ doc.membership.status = "active"
                /\ last'.req.planId \in PlanIds)
               => (last'.status = 200 /\ Len(orders') = Len(orders) + 1)]_vars

\* a day after the webhook activated the user, the guard turned a request down
C12_Witness ==
    /\ server = "guarded"
    /\ last.op = "create-order"
    /\ last.status = 400
    /\ last.body = [error |-> "User already has an active subscription"]
    /\ last.req.planId = "three-year"
    /\ now = Day0 + 1
    /\ \E r \in Rows : payments[r].userId = last.req.userId

\* C13: /create-order with a missing planId, or with a planId that is no plan of
\* the catalog, answers 400 with an error body, creates no order and changes
\* nothing in the database.
C13_InvalidPlanRejected ==
    [][(last'.op = "create-order"
        /\ (last'.req.planId = Unset \/ last'.req.planId \notin PlanIds)) =>
        /\ last'.status = 400
        /\ DOMAIN last'.body = {"error"}
        /\ orders' = orders
        /\ users' = users
        /\ payments' = payments]_vars

\* what /create-order answers to a request, from the request, the stored user and
\* the outside calls that throw
createOrderAnswer(req, fault, doc) ==
    IF req.planId = Unset \/ req.planId \notin PlanIds \cup {"constructor"}
    THEN <<400, "Invalid plan selected">>
    ELSE IF server = "guarded" /\ (req.userId = Unset \/ fault = "db")
    THEN <<500, "Failed to create order">>
    ELSE IF server = "guarded" /\ doc.membership.status = "active"
            /\ isSetDate(doc.membership.expiresAt) /\ doc.membership.expiresAt > now
    THEN <<400, "User already has an active subscription">>
    ELSE IF req.planId = "constructor" \/ fault = "gateway"
    THEN <<500, "Failed to create order">>
    ELSE <<200, "">>

\* C14: every response of /create-order is the success body {orderId, amount,
\* currency, keyId} or a status-400 response with an {error} body, also when the
\* gateway call or the user lookup fails.
C14_SuccessOr400 ==
    last.op = "create-order" =>
        \/ last.status = 200 /\ DOMAIN last.body = {"orderId", "amount", "currency", "keyId"}
        \/ last.status = 400 /\ DOMAIN last.body = {"error"}

\* C14 as amended: every response of /create-order is the success body {orderId,
\* amount, currency, keyId} (status 200), a 400 {error} (no or unknown plan, or the
\* duplicate guard), or a 500 {error: "Failed to create order"} when the user
\* lookup or the gateway call throws (a failing database or gateway, a request
\* without userId on the guarded server, a planId that names an inherited key).
C14_SuccessOr400Or500 ==
    [][last'.op = "create-order" =>
        LET doc == IF last'.req.userId \in Uids THEN users[last'.req.userId] ELSE NoDoc
            answer == createOrderAnswer(last'.req, last'.fault, doc)
        IN  /\ last'.status = answer[1]
            /\ IF last'.status = 200
               THEN /\ DOMAIN last'.body = {"orderId", "amount", "currency", "keyId"}
                    /\ Len(orders') = Len(orders) + 1
               ELSE /\ last'.body = [error |-> answer[2]]
                    /\ orders' = orders]_vars

\* the user lookup threw and the handler answered 500
C14_Witness ==
    /\ last.op = "create-order"
    /\ last.fault = "db"
    /\ last.status = 500
    /\ last.req.planId = "two-year"

\* C15: every /webhook request gets one response: 400 when the signature header
\* is missing or does not match, 500 when a database write throws after
\* verification, and 200 {status: "ok"} in every other verified case, whatever
\* the event type and the shape of the payload.
C15_OneResponsePerRequest ==
    last.op = "webhook" =>
        IF last.req.signature = NoSignature
           \/ webhookDigest(last.req.raw) # last.req.signature
        THEN last.status = 400 /\ DOMAIN last.body = {"error"}
        ELSE IF last.fault # "none"
        THEN last.status = 500 /\ DOMAIN last.body = {"error"}
        ELSE last.status = 200 /\ last.body = [status |-> "ok"]

\* the same for the requests whose payload has payload.payment.entity, where it
\* holds
C15_ShapedPayloads ==
    (last.op = "webhook" /\ last.req.raw.entity # NoEntity) => C15_OneResponsePerRequest

\* C16: a verified /webhook request that is not applicable (its event is not
\* payment.captured, or its notes lack userId or planId) changes no user document
\* and no ledger row.
C16_InapplicableChangesNothing ==
    [][(/\ last'.op = "webhook"
        /\ webhookDigest(last'.req.raw) = last'.req.signature
        /\ \/ last'.req.raw.event # "payment.captured"
           \/ last'.req.raw.entity = NoEntity
           \/ last'.req.raw.entity.notes.userId = Unset
           \/ last'.req.raw.entity.notes.planId = Unset)
       => (users' = users /\ payments' = payments)]_vars

\* a verified payment.failed event about a payment whose capture was applied
\* before was answered 200
C16_Witness ==
    /\ Len(payments) > 0
    /\ last.op = "webhook"
    /\ last.status = 200
    /\ webhookDigest(last.req.raw) = last.req.signature
    /\ last.req.raw.event = "payment.failed"
    /\ last.req.raw.entity # NoEntity
    /\ last.req.raw.entity.notes.userId \in Uids
    /\ last.req.raw.entity.notes.planId = "one-year"

\* C17: the webhook merges the membership before it appends the ledger row, and
\* not atomically: when the append throws after the merge, the response is 500,
\* the membership is active (started now) and no row was appended; nothing is
\* rolled back.
C17_MergeThenAppend ==
    [][(last'.op = "webhook" /\ last'.fault = "add") =>
        LET u == last'.req.raw.entity.notes.userId
        IN  /\ last'.status = 500
            /\ users'[u].exists
            /\ users'[u].membership.status = "active"
            /\ users'[u].membership.startDate = now
            /\ payments' = payments]_vars

\* the append failed: the user is active and the ledger has no row of the payment
C17_Witness ==
    /\ last.op = "webhook"
    /\ last.fault = "add"
    /\ last.status = 500
    /\ users[last.req.raw.entity.notes.userId].membership.status = "active"
    /\ \A r \in Rows : payments[r].paymentId # last.req.raw.entity.id

\* how many of the times of seq lie in the window that starts at t0
inWindow(seq, t0) ==
    Cardinality({i \in 1..Len(seq) : t0 <= seq[i] /\ seq[i] < t0 + RateWindow})

\* C18: for a user, at most 3 payment attempts within any 5-minute window reach
\* order creation; a 4th attempt inside the window fails before any network
\* request is sent; this after any sequence of successful, failed and cancelled
\* attempts.
C18_ThreePerWindow ==
    /\ \A t0 \in 0..MaxClock : inWindow(page.sent, t0) <= RateLimit
    /\ (last.op \in {"handle-payment", "script-onload"} /\ last.stopped \in {"hook", "service"})
        => (~last.read /\ ~last.order)

\* C18 as amended: within one load of the page, at most 3 attempts within any
\* 5-minute window send the /create-order request; an attempt that finds 3
\* requests of the last 5 minutes sends none (the profile read that handlePayment
\* makes first is sent all the same); a reload of the page empties both limiters.
C18_ThreePerWindowPerLoad ==
    [][/\ \A t0 \in 0..MaxClock : inWindow(page'.sentSinceLoad, t0) <= RateLimit
       /\ (/\ last'.op \in {"handle-payment", "script-onload"}
           /\ inWindow(page.sentSinceLoad, page.clock - RateWindow + 1) >= RateLimit)
          => (/\ page'.sent = page.sent
              /\ ~last'.order
              /\ last'.stopped \in {"hook", "service"})
       /\ last'.op = "reload" => (page'.rateLimitMap = <<>> /\ page'.paymentAttempts = 0)]_vars

\* after a success set the hook's counter back, a 4th attempt inside the window
\* passed the hook and was stopped by the service's limiter
C18_Witness ==
    /\ last.op = "handle-payment"
    /\ last.stopped = "service"
    /\ page.paymentAttempts = 1
    /\ Len(page.sentSinceLoad) = RateLimit
    /\ page.clock < RateWindow

\* C19: the checkout script is injected at most once per page, for any number of
\* loadRazorpayScript calls in any interleaving, also when a second call comes
\* while the first script is still loading.
C19_OneScriptTag ==
    page.scripts <= 1

\* C20: in every user document that has a membership, membership.status is
\* "inactive" or "active", and membership.type is a plan identifier of the catalog,
\* "core", or not set; no webhook payload and no sign-in path writes another type.
C20_StatusAndTypeValues ==
    \A u \in Uids :
        users[u].exists =>
            /\ users[u].membership.status \in {"inactive", "active", Unset}
            /\ users[u].membership.type \in PlanIds \cup {"core", Null, Unset}

\* the values of a document no webhook has merged into, which are within the claim
C20_SignInValues ==
    \A u \in Uids :
        (users[u].exists /\ users[u].membership.startDate = NoDate) =>
            /\ users[u].membership.status \in {"inactive", "active", Unset}
            /\ users[u].membership.type \in {"core", Null, Unset}

\* the step creates the document of u: none was stored, one is stored after it
creates(u) == ~users[u].exists /\ users'[u].exists

\* C21: every user record is created with a membership whose status is
\* "inactive", at every first sign-in, whichever of the popup sign-in, the redirect
\* handler and the auth-state listener writes the document first.
C21_CreatedInactive ==
    [][\A u \in Uids :
        (creates(u) /\ last'.op \in {"sign-in", "redirect", "auth-state"})
            => users'[u].membership.status = "inactive"]_vars

\* C21 as amended: a record that signInWithGoogle or handleRedirect writes after
\* finding none has a membership with status "inactive" and type null for a user
\* the core-member roster does not list, and status "active" and type "core" for one
\* it lists; a record the auth-state listener creates (for a listed user) has the
\* role and no membership.
C21_CreatedInactiveUnlessCore ==
    [][\A u \in Uids :
        /\ (last'.op \in {"sign-in", "redirect"} /\ last'.uid = u /\ ~last'.found) =>
                /\ users'[u].exists
                /\ users'[u].membership.status = IF isCore(u) THEN "active" ELSE "inactive"
                /\ users'[u].membership.type = IF isCore(u) THEN "core" ELSE Null
                /\ users'[u].membership.expiresAt = NullDate
        /\ (last'.op = "auth-state" /\ creates(u)) =>
                /\ isCore(u)
                /\ users'[u].role = "coreMember"
                /\ users'[u].membership = NoMembership]_vars

\* the first sign-in of a listed user created the record with an active membership
C21_Witness ==
    \E u \in Uids :
        /\ last.op \in {"sign-in", "redirect"}
        /\ last.uid = u
        /\ ~last.found
        /\ isCore(u)
        /\ users[u].membership.status = "active"
        /\ users[u].membership.type = "core"

\* the step ran the success callback of handlePayment
successStep == last'.op \in FlowOps /\ last'.callback = "onSuccess"

\* the signature of a triple is the one the key secret gives its two identifiers
genuine(t) ==
    t.razorpay_signature
        = createHmac(RAZORPAY_KEY_SECRET,
                     t.razorpay_order_id \o <<"|">> \o t.razorpay_payment_id)

C23_NoSecondPurchase ==
    [][(appliedStep /\ server = "guarded" /\ Len(payments') > Len(payments)) =>
        LET payment == last'.req.raw.entity
            u == payment.notes.userId
        IN  ~(/\ alreadySubscribed(users[u], now)
              /\ \E r \in Rows : /\ payments[r].userId = u
                                 /\ payments[r].paymentId # payment.id)]_vars

\* the step sends the /create-order request of a run, or makes up the local order
ordersStep ==
    \/ page'.pc = "create-order" /\ page.pc # "create-order"
    \/ page'.pc = "checkout" /\ page.pc # "checkout" /\ ~page.apiBaseUrl

C25_ActivatedPlanWasPaid ==
    [][appliedStep =>
        LET payment == last'.req.raw.entity
            membership == users'[payment.notes.userId].membership
            written == IF server = "guarded" THEN membership.type ELSE membership.planId
        IN  /\ written \in PlanIds
            /\ payment.amount = MEMBERSHIP_PLANS[written].price * 100]_vars

\* C26: once the webhook has set a user's role to "EXECUTIVE MEMBER" with the
\* active membership, a profile save of that user does not take it back: however
\* the webhook's write falls between the read and the write of handleSave, the
\* role after the save is "EXECUTIVE MEMBER" and the membership is as it was.
C26_SaveKeepsExecutiveRole ==
    [][last'.op = "profile-save-write" =>
        LET u == last'.uid
        IN  (users[u].role = "EXECUTIVE MEMBER" /\ users[u].membership.status = "active") =>
                /\ users'[u].role = "EXECUTIVE MEMBER"
                /\ users'[u].membership = users[u].membership]_vars

\* the half of C26 that holds: no save writes the membership
C26_SaveKeepsMembership ==
    [][last'.op = "profile-save-write" =>
        users'[last'.uid].membership = users[last'.uid].membership]_vars

\* C30: handleCancel always returns to a saved state: after any sequence of
\* handleEdit, handleInputChange, handleSave (successful or failed) and
\* handleCancel, a handleCancel leaves isEditing false and the form equal to the
\* data of the last successful load or save; a failed handleSave leaves isEditing
\* and the saved snapshot (originalData) as they were.
C30_CancelRestoresSaved ==
    [][/\ last'.op = "profile-cancel" =>
            /\ ~page'.profile.isEditing
            /\ page.profile.saved # NoData => page'.profile.profileData = page.profile.saved
            /\ page'.profile.originalData = page.profile.originalData
       /\ (/\ last'.op \in {"profile-save-read", "profile-save-write"}
           /\ last'.failed \/ last'.op = "profile-save-read") =>
            /\ users' = users
            /\ page'.profile.isEditing = page.profile.isEditing
            /\ page'.profile.originalData = page.profile.originalData
       /\ (last'.op = "profile-save-write" /\ ~last'.failed) =>
            /\ users'[last'.uid].name = page.profile.saving
            /\ page'.profile.originalData = users'[last'.uid].name
            /\ ~page'.profile.isEditing]_vars

\* the form was edited after a successful save and a cancel brought the saved
\* data back
C30_Witness ==
    /\ last.op = "profile-cancel"
    /\ ~page.profile.isEditing
    /\ page.profile.profileData = "edited"
    /\ page.profile.saved = "edited"
    /\ \E u \in Uids : users[u].name = "edited"
    /\ ~page.profile.fetching
    /\ page.profile.saving = "edited again"

\* C27: every payment attempt that set loading to true ends: the step that ends
\* the run (the handler's verification failing or not verifying included) runs
\* the success callback, which navigates away, or leaves the form not loading
\* (the failure callback or the catch block).
C27_AttemptEnds ==
    [][(page'.complete /\ page.pc # "idle" /\ page'.pc = "idle") =>
        \/ last'.callback = "onSuccess" /\ page'.navigated = "/profile"
        \/ ~page'.loading]_vars

\* C29: the client gate and the server's duplicate guard agree: for the signed-in
\* user whose document the context holds, handlePayment refuses to start a payment
\* exactly when /create-order of the guarded server would reject the user as
\* already subscribed; a user whose membership is still "active" but whose
\* expiresAt has passed gets through the gate.
C29_GateAgreesWithGuard ==
    [][(/\ last'.op = "handle-payment-start"
        /\ server = "guarded"
        /\ page.user.exists
        /\ \A u \in Uids : users[u] = page.user) =>
            (last'.failed <=> alreadySubscribed(page.user, now))]_vars

\* C28: the regular user context never holds a user whose stored role is "admin":
\* once signInWithGoogle and the listener have both finished for an administrator's
\* account, in whatever order their steps fell, the user of the context is null.
C28_NoAdminInContext ==
    \A u \in Uids :
        (/\ last.op \in {"sign-in-setUser", "listener-setUser"}
         /\ signIn[u].pc = "idle"
         /\ page.listener.pc = "idle"
         /\ users[u].role = "admin") => ~page.user.exists

\* the half of C28 that holds: the listener itself never sets an administrator
C28_ListenerSetsNoAdmin ==
    [][(last'.op = "listener-setUser" /\ last'.admin) => ~page'.user.exists]_vars

====
